---------------------------- MODULE Spec2Model ----------------------------
(***************************************************************************)
(* A model of fixturegraph's diagram builder                               *)
(* (src/src/fixturegraph/_/diagram.py).                                    *)
(*                                                                         *)
(* Python strings are sequences of code points, so that slugify, sorted()  *)
(* and the f-strings are computed as the code computes them.  A dict is a  *)
(* sequence of <<key, value>> pairs in insertion order (Python keeps it);  *)
(* a set is iterated in an order the language does not define, which the   *)
(* variable hashDesc settles for one run of the process.                   *)
(***************************************************************************)
EXTENDS Integers, Sequences, FiniteSets, TLC

\* The longest entity list handed to diagram.
MaxEntities == 3

\* The longest arrow list handed to combine_arrows directly.
MaxArrows == 3

VARIABLES
    config,      \* the Configuration handed to diagram
    entities,    \* the entity list handed to diagram
    hashDesc,    \* the order in which this process iterates a set
    pc,          \* where the call is
    index,       \* make_guessed_arrows...: its three dicts after the first loop
    arrows,      \* the Arrow list (make_arrows' result, combine_arrows' input)
    dot_arrows,  \* combine_arrows' result
    nodes,       \* make_nodes' result
    lines,       \* diagram's result
    err          \* the exception that ended the call, or "none"

vars == <<config, entities, hashDesc, pc, index, arrows, dot_arrows, nodes,
          lines, err>>

-----------------------------------------------------------------------------
(* Strings *)

\* Python's str ordering: lexicographic on code points.
StrLess(a, b) ==
    \E i \in 1..Len(b) :
        /\ \A j \in 1..(i - 1) : j <= Len(a) /\ a[j] = b[j]
        /\ (i > Len(a) \/ a[i] < b[i])

StrLeq(a, b) == a = b \/ StrLess(a, b)

MapSeq(s, F(_)) == [i \in 1..Len(s) |-> F(s[i])]

RECURSIVE Flatten(_)
Flatten(ss) == IF ss = <<>> THEN <<>> ELSE Head(ss) \o Flatten(Tail(ss))

\* sep.join(parts)
RECURSIVE Join(_, _)
Join(sep, parts) ==
    IF parts = <<>> THEN <<>>
    ELSE IF Len(parts) = 1 THEN parts[1]
    ELSE parts[1] \o sep \o Join(sep, Tail(parts))

\* s.startswith(p)
StartsWith(s, p) == Len(s) >= Len(p) /\ SubSeq(s, 1, Len(p)) = p

\* s.split(sep), for a non-empty separator
RECURSIVE SplitFrom(_, _, _)
SplitFrom(s, sep, acc) ==
    IF s = <<>> THEN <<acc>>
    ELSE IF StartsWith(s, sep)
         THEN <<acc>> \o SplitFrom(SubSeq(s, Len(sep) + 1, Len(s)), sep, <<>>)
         ELSE SplitFrom(Tail(s), sep, Append(acc, Head(s)))

Split(s, sep) == SplitFrom(s, sep, <<>>)

\* s.lstrip(c), s.strip() for the one character c
RECURSIVE LStrip(_, _)
LStrip(s, c) == IF s # <<>> /\ Head(s) = c THEN LStrip(Tail(s), c) ELSE s

RECURSIVE RStrip(_, _)
RStrip(s, c) ==
    IF s # <<>> /\ s[Len(s)] = c THEN RStrip(SubSeq(s, 1, Len(s) - 1), c) ELSE s

\* str(i) for a list index
Digits(i) == IF i < 10 THEN <<48 + i>> ELSE <<48 + (i \div 10), 48 + (i % 10)>>

\* The elements of a finite set as a sequence, ascending in a strict total order.
SortSet(S, Less(_, _)) ==
    [i \in 1..Cardinality(S) |->
        CHOOSE x \in S : Cardinality({y \in S : Less(y, x)}) = i - 1]

Reverse(s) == [i \in 1..Len(s) |-> s[Len(s) + 1 - i]]

\* sorted(s) of a list: equal items stay, side by side.
SortedSeq(s, Less(_, _)) ==
    LET distinct == SortSet({s[i] : i \in 1..Len(s)}, Less)
        count(x) == Cardinality({i \in 1..Len(s) : s[i] = x})
    IN  Flatten([i \in 1..Len(distinct) |->
                    [j \in 1..count(distinct[i]) |-> distinct[i]]])

\* Iterating a set: its order is the hash table's, not the language's.
IterSet(S, Less(_, _)) ==
    IF hashDesc THEN Reverse(SortSet(S, Less)) ELSE SortSet(S, Less)

Range(s) == {s[i] : i \in 1..Len(s)}

-----------------------------------------------------------------------------
(* slugify *)

IsWordChar(c) == c \in (48..57) \cup (65..90) \cup (97..122) \cup {95}

RECURSIVE CollapseSpaces(_)
CollapseSpaces(s) ==
    IF Len(s) < 2 THEN s
    ELSE IF s[1] = 32 /\ s[2] = 32 THEN CollapseSpaces(Tail(s))
    ELSE <<s[1]>> \o CollapseSpaces(Tail(s))

slugify(s) ==
    LET lower(c)  == IF c \in 65..90 THEN c + 32 ELSE c
        under(c)  == IF c \in {32, 45, 46, 47} THEN 95 ELSE c
        space(c)  == IF c = 95 THEN 32 ELSE c
        back(c)   == IF c = 32 THEN 95 ELSE c
        s1 == MapSeq(s, lower)
        s2 == MapSeq(s1, under)
        s3 == SelectSeq(s2, IsWordChar)
        s4 == MapSeq(s3, space)
        s5 == CollapseSpaces(s4)
        s6 == RStrip(LStrip(s5, 32), 32)
    IN  MapSeq(s6, back)

-----------------------------------------------------------------------------
(* Objects and configuration *)

\* An attribute value: a str, a tuple of str, one object, or a list of objects.
Str(s)     == [tag |-> "str",   strs |-> <<s>>, objs |-> <<>>]
StrTuple(t) == [tag |-> "tuple", strs |-> t,     objs |-> <<>>]
Obj(o)     == [tag |-> "obj",   strs |-> <<>>,  objs |-> <<o>>]
ObjList(l) == [tag |-> "list",  strs |-> <<>>,  objs |-> l]

\* What a raised KeyError / ValueError is in place of a result: no string or
\* list equals it.
KeyError == <<-1>>

ValueError == <<-2>>

\* dict.get(key, [])
GetOrEmpty(d, key) == IF key \in DOMAIN d THEN d[key] ELSE <<>>

\* d[k] = v on an insertion-ordered dict: an existing key keeps its position.
DictSet(d, k, v) ==
    IF \E i \in 1..Len(d) : d[i][1] = k
    THEN [i \in 1..Len(d) |-> IF d[i][1] = k THEN <<k, v>> ELSE d[i]]
    ELSE Append(d, <<k, v>>)

DictHas(d, k) == \E i \in 1..Len(d) : d[i][1] = k

DictGet(d, k) == d[CHOOSE i \in 1..Len(d) : d[i][1] = k][2]

-----------------------------------------------------------------------------
(* Attribute extraction *)

RECURSIVE FilterLoop(_, _, _, _)
FilterLoop(synonyms, attrs, seen, filtered) ==
    IF attrs = <<>> THEN filtered
    ELSE LET k == Head(attrs)[1]
             representative == synonyms[1]
         IN  IF k \in Range(synonyms)
             THEN IF representative \in seen
                  THEN FilterLoop(synonyms, Tail(attrs), seen, filtered)
                  ELSE FilterLoop(synonyms, Tail(attrs),
                                  seen \cup {representative},
                                  Append(filtered, Head(attrs)))
             ELSE FilterLoop(synonyms, Tail(attrs), seen,
                             Append(filtered, Head(attrs)))

filter_out_synonymous_attributes(synonymous_attrs, entity, attrs) ==
    FilterLoop(GetOrEmpty(synonymous_attrs, entity.type), attrs, {}, <<>>)

\* not a str, a Sequence, and every item a str (an empty list is one)
is_sequence_of_strings(value) ==
    value.tag = "tuple" \/ (value.tag = "list" /\ value.objs = <<>>)

RECURSIVE SetItems(_, _, _, _)
SetItems(attrs, base, items, i) ==
    IF i > Len(items) THEN attrs
    ELSE SetItems(DictSet(attrs, base \o <<95>> \o Digits(i - 1), items[i]),
                  base, items, i + 1)

RECURSIVE GetAttrsLoop(_, _, _)
GetAttrsLoop(entity, members, attrs) ==
    IF members = <<>> THEN attrs
    ELSE LET k == Head(members)
             v == entity.attrs[k]
             a1 == IF v.tag = "str"
                   THEN DictSet(attrs, LStrip(k, 95), v.strs[1]) ELSE attrs
             a2 == IF is_sequence_of_strings(v)
                   THEN SetItems(a1, LStrip(k, 95), v.strs, 1) ELSE a1
         IN  IF StartsWith(k, <<95, 95>>)
             THEN GetAttrsLoop(entity, Tail(members), attrs)
             ELSE GetAttrsLoop(entity, Tail(members), a2)

\* inspect.getmembers lists the members sorted by name.  The objects of the
\* model are no named tuples and hold no routines.
get_attrs(synonymous_attrs, entity) ==
    filter_out_synonymous_attributes(
        synonymous_attrs, entity,
        GetAttrsLoop(entity, SortSet(DOMAIN entity.attrs, StrLess), <<>>))

RECURSIVE ChildrenLoop(_, _)
ChildrenLoop(entity, attr_names) ==
    IF attr_names = <<>> THEN <<>>
    ELSE LET name == Head(attr_names)
             value == entity.attrs[name]
             here == IF value.tag = "list"
                     THEN [i \in 1..Len(value.objs) |->
                              <<name \o <<95>> \o Digits(i - 1), value.objs[i]>>]
                     ELSE <<<<name, value.objs[1]>>>>
         IN  here \o ChildrenLoop(entity, Tail(attr_names))

\* The (attribute name, child) pairs, in the order the generator yields them.
get_children(attrs, entity) ==
    ChildrenLoop(entity, GetOrEmpty(attrs, entity.type))

\* entity_name with id_attrs.get(type_, "id") for id_attrs[type_]: a type with
\* no identity attribute is named by its "id" and nothing is raised.
entity_name_unchecked(id_attrs, entity) ==
    LET attr == entity.attrs[IF entity.type \in DOMAIN id_attrs
                             THEN id_attrs[entity.type] ELSE <<105, 100>>]
        value == IF attr.tag = "tuple" THEN Join(<<95>>, attr.strs)
                 ELSE attr.strs[1]
    IN  entity.type \o <<95>> \o value

\* The name, or KeyError when the type has no identity attribute.  The
\* identity attributes of the model are no callables.
entity_name(id_attrs, entity) ==
    IF entity.type \notin DOMAIN id_attrs THEN KeyError
    ELSE LET attr == entity.attrs[id_attrs[entity.type]]
             value == IF attr.tag = "tuple" THEN Join(<<95>>, attr.strs)
                      ELSE attr.strs[1]
         IN  entity.type \o <<95>> \o value

-----------------------------------------------------------------------------
(* Arrows *)

\* Arrow.value of an arrow that was not guessed.
None == <<-3>>

PairLess(p, q) ==
    StrLess(p[1], q[1]) \/ (p[1] = q[1] /\ StrLess(p[2], q[2]))

\* d.setdefault(key, set()).add(x)
SetDefaultAdd(d, key, x) ==
    IF DictHas(d, key) THEN DictSet(d, key, DictGet(d, key) \cup {x})
    ELSE Append(d, <<key, {x}>>)

RECURSIVE SetDefaultAddAll(_, _)
SetDefaultAddAll(d, ops) ==
    IF ops = <<>> THEN d
    ELSE SetDefaultAddAll(SetDefaultAdd(d, Head(ops)[1], Head(ops)[2]), Tail(ops))

EmptyIndex ==
    [err |-> "none", attrs_by_entity_name |-> <<>>,
     types_by_entity_name |-> <<>>, by_value |-> <<>>]

\* The first loop of make_guessed_arrows_from_attr_string_values.
RECURSIVE IndexEntities(_, _, _)
IndexEntities(cfg, ents, st) ==
    IF ents = <<>> THEN st
    ELSE LET entity == Head(ents)
             name == entity_name(cfg.id_attrs, entity)
             attrs == get_attrs(cfg.synonymous_attrs, entity)
         IN  IF name = KeyError THEN [EmptyIndex EXCEPT !.err = "KeyError"]
             ELSE IndexEntities(cfg, Tail(ents),
                    [err |-> "none",
                     attrs_by_entity_name |->
                         DictSet(st.attrs_by_entity_name, name, attrs),
                     types_by_entity_name |->
                         DictSet(st.types_by_entity_name, name, entity.type),
                     by_value |->
                         SetDefaultAddAll(st.by_value,
                             [i \in 1..Len(attrs) |-> <<attrs[i][2], name>>])])

\* The second and third loops: the arrows, in the order they are appended.
GuessArrows(ix) ==
    LET by_value_get(v) ==
            IF DictHas(ix.by_value, v) THEN DictGet(ix.by_value, v) ELSE {}
        OpsOf(src_name, src_attrs) ==
            LET src_type == DictGet(ix.types_by_entity_name, src_name)
            IN  Flatten([i \in 1..Len(src_attrs) |->
                    LET v == src_attrs[i][2]
                        dst_names == IterSet(by_value_get(v) \ {src_name}, StrLess)
                    IN  [j \in 1..Len(dst_names) |->
                            <<<<src_type, src_name,
                                DictGet(ix.types_by_entity_name, dst_names[j]),
                                dst_names[j]>>,
                              src_attrs[i]>>]])
        attrs_ == SetDefaultAddAll(<<>>,
                    Flatten([s \in 1..Len(ix.attrs_by_entity_name) |->
                        OpsOf(ix.attrs_by_entity_name[s][1],
                              ix.attrs_by_entity_name[s][2])]))
    IN  Flatten([g \in 1..Len(attrs_) |->
            LET key == attrs_[g][1]
                kvs == IterSet(attrs_[g][2], PairLess)
            IN  [i \in 1..Len(kvs) |->
                    [src_type |-> key[1], src_name |-> slugify(key[2]),
                     dst_type |-> key[3], dst_name |-> slugify(key[4]),
                     key |-> kvs[i][1], value |-> kvs[i][2],
                     guessed |-> TRUE]]])

make_guessed_arrows_from_attr_string_values(cfg, ents) ==
    LET ix == IndexEntities(cfg, ents, EmptyIndex)
    IN  IF ix.err # "none" THEN [err |-> ix.err, arrows |-> <<>>]
        ELSE [err |-> "none", arrows |-> GuessArrows(ix)]

RECURSIVE RefsOfEntity(_, _, _)
RefsOfEntity(cfg, entity, children) ==
    IF children = <<>> THEN [err |-> "none", arrows |-> <<>>]
    ELSE LET attr_name == Head(children)[1]
             child == Head(children)[2]
             parent_name == entity_name(cfg.id_attrs, entity)
             child_name == entity_name(cfg.id_attrs, child)
             rest == RefsOfEntity(cfg, entity, Tail(children))
         IN  IF parent_name = KeyError \/ child_name = KeyError
                \/ rest.err # "none"
             THEN [err |-> "KeyError", arrows |-> <<>>]
             ELSE [err |-> "none",
                   arrows |->
                     <<[src_type |-> entity.type,
                        src_name |-> slugify(parent_name),
                        dst_type |-> child.type,
                        dst_name |-> slugify(child_name),
                        key |-> attr_name, value |-> None,
                        guessed |-> FALSE]>> \o rest.arrows]

RECURSIVE make_arrows_from_python_refs(_, _)
make_arrows_from_python_refs(cfg, ents) ==
    IF ents = <<>> THEN [err |-> "none", arrows |-> <<>>]
    ELSE LET here == RefsOfEntity(cfg, Head(ents),
                         get_children(cfg.attrs_with_child_refs, Head(ents)))
             rest == make_arrows_from_python_refs(cfg, Tail(ents))
         IN  IF here.err # "none" \/ rest.err # "none"
             THEN [err |-> "KeyError", arrows |-> <<>>]
             ELSE [err |-> "none", arrows |-> here.arrows \o rest.arrows]

make_arrows(cfg, ents) ==
    LET g == make_guessed_arrows_from_attr_string_values(cfg, ents)
        r == make_arrows_from_python_refs(cfg, ents)
    IN  IF g.err # "none" THEN g
        ELSE IF r.err # "none" THEN r
        ELSE [err |-> "none", arrows |-> g.arrows \o r.arrows]

-----------------------------------------------------------------------------
(* Combining arrows *)

DotArrow(src, dst, label, bidirectional) ==
    [src |-> src, dst |-> dst, label |-> label, bidirectional |-> bidirectional]

DotArrow_make(src, dst, label, bidirectional) ==
    IF bidirectional
    THEN LET sorted == SortedSeq(<<src, dst>>, StrLess)
         IN  DotArrow(sorted[1], sorted[2], label, bidirectional)
    ELSE DotArrow(src, dst, label, bidirectional)

\* The order of the DotArrow tuples: src, dst, label, bidirectional.
DotArrowLess(a, b) ==
    \/ StrLess(a.src, b.src)
    \/ a.src = b.src /\ StrLess(a.dst, b.dst)
    \/ a.src = b.src /\ a.dst = b.dst /\ StrLess(a.label, b.label)
    \/ a.src = b.src /\ a.dst = b.dst /\ a.label = b.label
       /\ ~a.bidirectional /\ b.bidirectional

\* make_index with "index[pair] = {a}" for "index[pair].add(a)": a pair keeps
\* the last of its arrows alone.
RECURSIVE make_index_overwrite(_)
make_index_overwrite(arrows_) ==
    IF arrows_ = <<>>
    THEN [by_src_dst_name_pairs |-> <<>>,
          by_undirected_src_dst_name_pairs |-> <<>>]
    ELSE LET a == arrows_[Len(arrows_)]
             ix == make_index_overwrite(SubSeq(arrows_, 1, Len(arrows_) - 1))
         IN  [by_src_dst_name_pairs |->
                  DictSet(ix.by_src_dst_name_pairs,
                          <<a.src_name, a.dst_name>>, {a}),
              by_undirected_src_dst_name_pairs |->
                  DictSet(ix.by_undirected_src_dst_name_pairs,
                          {a.src_name, a.dst_name}, {a})]

RECURSIVE make_index(_)
make_index(arrows_) ==
    IF arrows_ = <<>>
    THEN [by_src_dst_name_pairs |-> <<>>,
          by_undirected_src_dst_name_pairs |-> <<>>]
    ELSE LET a == arrows_[Len(arrows_)]
             ix == make_index(SubSeq(arrows_, 1, Len(arrows_) - 1))
         IN  [by_src_dst_name_pairs |->
                  SetDefaultAdd(ix.by_src_dst_name_pairs,
                                <<a.src_name, a.dst_name>>, a),
              by_undirected_src_dst_name_pairs |->
                  SetDefaultAdd(ix.by_undirected_src_dst_name_pairs,
                                {a.src_name, a.dst_name}, a)]

\* The groups, in the order of the index, and what no group took.
grouped_by_undirected_edge_and_value(ix, arrows_) ==
    LET d == ix.by_undirected_src_dst_name_pairs
        \* ungrouped before the i-th item of the index is looked at
        ungrouped[i \in 1..(Len(d) + 1)] ==
            IF i = 1 THEN arrows_
            ELSE ungrouped[i - 1] \ (d[i - 1][2] \cap ungrouped[i - 1])
        matching(i) == d[i][2] \cap ungrouped[i]
        hits == SelectSeq([i \in 1..Len(d) |-> <<d[i][1], matching(i)>>],
                          LAMBDA g : g[2] # {})
    IN  [groups |-> hits, ungrouped |-> ungrouped[Len(d) + 1]]

grouped_by_directed_edge(ix, arrows_) ==
    LET d == ix.by_src_dst_name_pairs
    IN  SelectSeq([i \in 1..Len(d) |-> <<d[i][1], d[i][2] \cap arrows_>>],
                  LAMBDA g : g[2] # {})

make_label(group) ==
    LET keys == {a.key : a \in group}
    IN  Join(<<60, 98, 114, 47, 62>>,
             MapSeq(SortSet(keys, StrLess), slugify))

\* The list r, or ValueError: "for (name1, name2), group in groups" cannot
\* unpack the frozenset of an arrow from a node to itself.
combine_arrows(rules, arrows_) ==
    LET ix == make_index(arrows_)
        all == Range(arrows_)
        guessed == {a \in all : a.guessed}
        not_guessed == all \ guessed
        g1 == grouped_by_undirected_edge_and_value(ix, guessed)
        both == [i \in 1..Len(g1.groups) |->
                    LET names == IterSet(g1.groups[i][1], StrLess)
                    IN  DotArrow_make(names[1], names[2],
                                      make_label(g1.groups[i][2]), TRUE)]
        left == g1.ungrouped \cup not_guessed
        g2 == grouped_by_directed_edge(ix, left)
        one == [i \in 1..Len(g2) |->
                    DotArrow_make(g2[i][1][1], g2[i][1][2],
                                  make_label(g2[i][2]), FALSE)]
    IN  IF \E i \in 1..Len(g1.groups) : Cardinality(g1.groups[i][1]) # 2
        THEN [err |-> "ValueError", r |-> <<>>]
        ELSE [err |-> "none", r |-> both \o one]

-----------------------------------------------------------------------------
(* Rendering *)

\* One line of the dot file for an arrow.  combine_arrows gives every
\* DotArrow a label, so the lines for a label of None are never written.
ArrowLine(arrow) ==
    IF arrow.bidirectional
    THEN arrow.src \o <<45, 62>> \o arrow.dst
         \o <<32, 91, 32, 108, 97, 98, 101, 108, 61, 32, 60>> \o arrow.label
         \o <<62, 32, 100, 105, 114, 61, 34, 98, 111, 116, 104, 34, 32, 93>>
    ELSE arrow.src \o <<45, 62>> \o arrow.dst
         \o <<32, 91, 32, 108, 97, 98, 101, 108, 61, 32, 60>> \o arrow.label
         \o <<62, 32, 93>>

render_to_dot(nodes_, arrows_) ==
    LET node_names == {nodes_[i] : i \in 1..Len(nodes_)}
    IN  SortSet(node_names, StrLess)
        \o MapSeq(SortedSeq(arrows_, DotArrowLess), ArrowLine)

make_nodes(cfg, ents) ==
    IF \E i \in 1..Len(ents) : entity_name(cfg.id_attrs, ents[i]) = KeyError
    THEN [err |-> "KeyError", nodes |-> <<>>]
    ELSE [err |-> "none",
          nodes |-> [i \in 1..Len(ents) |->
                        slugify(entity_name(cfg.id_attrs, ents[i]))]]

diagram(cfg, ents) ==
    LET a == make_arrows(cfg, ents)
        c == combine_arrows("rules", a.arrows)
        n == make_nodes(cfg, ents)
    IN  IF a.err # "none" THEN [err |-> a.err, lines |-> <<>>]
        ELSE IF c.err # "none" THEN [err |-> c.err, lines |-> <<>>]
        ELSE IF n.err # "none" THEN [err |-> n.err, lines |-> <<>>]
        ELSE [err |-> "none", lines |-> render_to_dot(n.nodes, c.r)]

-----------------------------------------------------------------------------
(* The inputs the model runs the program on *)

TypeW == <<87>>

TypeP == <<80>>

TypeX == <<88>>

\* W(id="a", x="v")
E1 == [type |-> TypeW,
       attrs |-> (<<105, 100>> :> Str(<<97>>)) @@ (<<120>> :> Str(<<118>>))]

\* W(id="a", _y="v"): the name of E1, other attributes
E2 == [type |-> TypeW,
       attrs |-> (<<105, 100>> :> Str(<<97>>)) @@ (<<95, 121>> :> Str(<<118>>))]

\* W(id="A", x="v"): another name than E1's, the same slug
E3 == [type |-> TypeW,
       attrs |-> (<<105, 100>> :> Str(<<65>>)) @@ (<<120>> :> Str(<<118>>))]

\* W(id="b", a="v", r="w"): both synonyms
E4 == [type |-> TypeW,
       attrs |-> (<<105, 100>> :> Str(<<98>>)) @@ (<<97>> :> Str(<<118>>))
                 @@ (<<114>> :> Str(<<119>>))]

\* X(id="c", y="w")
E5 == [type |-> TypeX,
       attrs |-> (<<105, 100>> :> Str(<<99>>)) @@ (<<121>> :> Str(<<119>>))]

\* P(id="p", kid=E1, kids=[E5])
E6 == [type |-> TypeP,
       attrs |-> (<<105, 100>> :> Str(<<112>>)) @@ (<<107, 105, 100>> :> Obj(E1))
                 @@ (<<107, 105, 100, 115>> :> ObjList(<<E5>>))]

\* P(id="q", m="v", kid=E4, kids=[])
E7 == [type |-> TypeP,
       attrs |-> (<<105, 100>> :> Str(<<113>>)) @@ (<<109>> :> Str(<<118>>))
                 @@ (<<107, 105, 100>> :> Obj(E4))
                 @@ (<<107, 105, 100, 115>> :> ObjList(<<>>))]

\* W(id=("a", "b"))
E8 == [type |-> TypeW,
       attrs |-> (<<105, 100>> :> StrTuple(<<<<97>>, <<98>>>>))]

EntityPool == {E1, E2, E3, E4, E5, E6, E7, E8}

\* Every type has an identity attribute.
Cfg1 ==
    [id_attrs |-> (TypeW :> <<105, 100>>) @@ (TypeP :> <<105, 100>>)
                  @@ (TypeX :> <<105, 100>>),
     attrs_with_child_refs |-> (TypeP :> <<<<107, 105, 100>>, <<107, 105, 100, 115>>>>),
     synonymous_attrs |-> (TypeW :> <<<<114>>, <<97>>>>)]

\* X has none.
Cfg2 ==
    [id_attrs |-> (TypeW :> <<105, 100>>) @@ (TypeP :> <<105, 100>>),
     attrs_with_child_refs |-> (TypeP :> <<<<107, 105, 100>>, <<107, 105, 100, 115>>>>),
     synonymous_attrs |-> (TypeW :> <<<<114>>, <<97>>>>)]

SeqsUpTo(S, n) == UNION {[1..k -> S] : k \in 0..n}

-----------------------------------------------------------------------------
(* diagram(config, entities), step by step *)

Init ==
    /\ config \in {Cfg1, Cfg2}
    /\ entities \in SeqsUpTo(EntityPool, MaxEntities)
    /\ hashDesc \in BOOLEAN
    /\ pc = "start"
    /\ index = EmptyIndex
    /\ arrows = <<>>
    /\ dot_arrows = <<>>
    /\ nodes = <<>>
    /\ lines = <<>>
    /\ err = "none"

\* An exception leaves diagram: nothing is returned.
Raise(e) ==
    /\ pc' = "failed"
    /\ err' = e
    /\ UNCHANGED <<config, entities, hashDesc, index, arrows, dot_arrows,
                   nodes, lines>>

Index ==
    /\ pc = "start"
    /\ LET ix == IndexEntities(config, entities, EmptyIndex)
       IN  IF ix.err # "none" THEN Raise(ix.err)
           ELSE /\ index' = ix
                /\ pc' = "indexed"
                /\ UNCHANGED <<config, entities, hashDesc, arrows, dot_arrows,
                               nodes, lines, err>>

Guess ==
    /\ pc = "indexed"
    /\ arrows' = GuessArrows(index)
    /\ pc' = "guessed"
    /\ UNCHANGED <<config, entities, hashDesc, index, dot_arrows, nodes,
                   lines, err>>

Refs ==
    /\ pc = "guessed"
    /\ LET r == make_arrows_from_python_refs(config, entities)
       IN  IF r.err # "none" THEN Raise(r.err)
           ELSE /\ arrows' = arrows \o r.arrows
                /\ pc' = "arrows"
                /\ UNCHANGED <<config, entities, hashDesc, index, dot_arrows,
                               nodes, lines, err>>

Combine ==
    /\ pc = "arrows"
    /\ LET c == combine_arrows("rules", arrows)
       IN  IF c.err # "none" THEN Raise(c.err)
           ELSE /\ dot_arrows' = c.r
                /\ pc' = "combined"
                /\ UNCHANGED <<config, entities, hashDesc, index, arrows,
                               nodes, lines, err>>

Nodes ==
    /\ pc = "combined"
    /\ LET n == make_nodes(config, entities)
       IN  IF n.err # "none" THEN Raise(n.err)
           ELSE /\ nodes' = n.nodes
                /\ pc' = "nodes"
                /\ UNCHANGED <<config, entities, hashDesc, index, arrows,
                               dot_arrows, lines, err>>

Render ==
    /\ pc = "nodes"
    /\ lines' = render_to_dot(nodes, dot_arrows)
    /\ pc' = "done"
    /\ UNCHANGED <<config, entities, hashDesc, index, arrows, dot_arrows,
                   nodes, err>>

Next == Index \/ Guess \/ Refs \/ Combine \/ Nodes \/ Render

Spec == Init /\ [][Next]_vars

-----------------------------------------------------------------------------
(* combine_arrows(rules, arrows) called on a list of arrows of the caller's *)

Guessed(src, dst, key, value) ==
    [src_type |-> TypeW, src_name |-> src, dst_type |-> TypeW, dst_name |-> dst,
     key |-> key, value |-> value, guessed |-> TRUE]

Explicit(src, dst, key) ==
    [src_type |-> TypeW, src_name |-> src, dst_type |-> TypeW, dst_name |-> dst,
     key |-> key, value |-> None, guessed |-> FALSE]

ArrowPool ==
    { Guessed(<<97>>, <<98>>, <<97>>, <<118>>),   \* a -> b on a matched on v
      Guessed(<<98>>, <<97>>, <<66>>, <<118>>),   \* b -> a on B matched on v
      Guessed(<<97>>, <<98>>, <<98>>, <<119>>),   \* a -> b on b matched on w
      Guessed(<<97>>, <<97>>, <<97>>, <<118>>),   \* a -> a on a matched on v
      Explicit(<<97>>, <<98>>, <<99>>),           \* a -> b on c
      Explicit(<<98>>, <<97>>, <<99>>),           \* b -> a on c
      Explicit(<<97>>, <<99>>, <<99>>) }          \* a -> c on c

InitCombine ==
    /\ config = Cfg1
    /\ entities = <<>>
    /\ hashDesc \in BOOLEAN
    /\ pc = "arrows"
    /\ index = EmptyIndex
    /\ arrows \in SeqsUpTo(ArrowPool, MaxArrows)
    /\ dot_arrows = <<>>
    /\ nodes = <<>>
    /\ lines = <<>>
    /\ err = "none"

NextCombine == Combine

SpecCombine == InitCombine /\ [][NextCombine]_vars

-----------------------------------------------------------------------------
(* What the claims speak of *)

\* Every ordering of a list.
Perms(s) ==
    {[i \in 1..Len(s) |-> s[f[i]]] : f \in Permutations(1..Len(s))}

\* No object is in the list twice.
Distinct(list) ==
    \A i \in 1..Len(list) : \A j \in 1..Len(list) : i # j => list[i] # list[j]

\* A node line holds a slug alone; an arrow line holds "->".
IsNodeLine(line) == \A i \in 1..Len(line) : line[i] # 62

NodeLines == SelectSeq(lines, IsNodeLine)

\* The key tokens of a label.
Tokens(label) == Split(label, <<60, 98, 114, 47, 62>>)

Ascending(tokens) ==
    \A i \in 1..(Len(tokens) - 1) : StrLess(tokens[i], tokens[i + 1])

\* The attributes of an entity before the synonyms are filtered out.
ExtractedAttrs(entity) ==
    GetAttrsLoop(entity, SortSet(DOMAIN entity.attrs, StrLess), <<>>)

HasIdentity(obj) == obj.type \in DOMAIN config.id_attrs

ChildrenOf(entity) ==
    LET c == get_children(config.attrs_with_child_refs, entity)
    IN  {c[i][2] : i \in 1..Len(c)}

MissingEntity == \E i \in 1..Len(entities) : ~HasIdentity(entities[i])

MissingChild ==
    \E i \in 1..Len(entities) : \E c \in ChildrenOf(entities[i]) : ~HasIdentity(c)

GuessedOf(list) == {list[i] : i \in {j \in 1..Len(list) : list[j].guessed}}

ExplicitOf(list) == {list[i] : i \in {j \in 1..Len(list) : ~list[j].guessed}}

SlugKeys(group) == {slugify(a.key) : a \in group}

Returned == pc = "combined" /\ err = "none"

Ended == pc \in {"combined", "failed"}

-----------------------------------------------------------------------------
(* The claims *)

\* C1: diagram(config, entities) returns the same node and edge lines for
\* every permutation of the entity list.
C1_SameLinesForEveryOrder ==
    pc = "done" /\ Distinct(entities) =>
        \A p \in Perms(entities) :
            diagram(config, p) = [err |-> "none", lines |-> lines]

\* C2: the output of diagram holds exactly one node line per entity of the
\* list, also when two entities have equal names or equal slugs.
C2_OneNodeLinePerEntity ==
    pc = "done" /\ Distinct(entities) => Len(NodeLines) = Len(entities)

\* C3: no arrow returned by make_guessed_arrows_from_attr_string_values has
\* src_name = dst_name.
C3_NoGuessedSelfLoop ==
    pc = "guessed" =>
        \A i \in 1..Len(arrows) : arrows[i].src_name # arrows[i].dst_name

\* What C4 says of the list combine_arrows returned.
BidirectionalAsClaimed ==
    LET guessed == GuessedOf(arrows)
        pairs == {{a.src_name, a.dst_name} : a \in guessed}
        both == {dot_arrows[i] : i \in {j \in 1..Len(dot_arrows) :
                                          dot_arrows[j].bidirectional}}
        of(pair) == {a \in guessed : {a.src_name, a.dst_name} = pair}
        count(d) == Cardinality({i \in 1..Len(dot_arrows) : dot_arrows[i] = d})
    IN  Returned =>
            /\ \A pair \in pairs :
                \E d \in both :
                    /\ {d.src, d.dst} = pair
                    /\ StrLeq(d.src, d.dst)
                    /\ Range(Tokens(d.label)) = SlugKeys(of(pair))
                    /\ count(d) = 1
                    /\ \A e \in both : {e.src, e.dst} = pair => e = d
            /\ \A d \in both : {d.src, d.dst} \in pairs
            /\ grouped_by_undirected_edge_and_value(
                   make_index(arrows), guessed).ungrouped = {}

\* C4: combine_arrows returns, for every unordered node pair with a guessed
\* arrow, exactly one bidirectional DotArrow, its (src, dst) the sorted pair
\* and its label built from the keys of all guessed arrows of the pair; no
\* guessed arrow reaches phase 2 and there is no other bidirectional DotArrow.
\* (Whatever the collection, the call returns, and returns that.)
C4_OneBidirectionalPerGuessedPair ==
    Ended => Returned /\ BidirectionalAsClaimed

\* What C5 says of the list combine_arrows returned.
DirectedAsClaimed ==
    LET explicit == ExplicitOf(arrows)
        pairs == {<<a.src_name, a.dst_name>> : a \in explicit}
        one == {dot_arrows[i] : i \in {j \in 1..Len(dot_arrows) :
                                         ~dot_arrows[j].bidirectional}}
        of(pair) == {a \in explicit : <<a.src_name, a.dst_name>> = pair}
        count(d) == Cardinality({i \in 1..Len(dot_arrows) : dot_arrows[i] = d})
    IN  Returned =>
            /\ \A pair \in pairs :
                \E d \in one :
                    /\ <<d.src, d.dst>> = pair
                    /\ Range(Tokens(d.label)) = SlugKeys(of(pair))
                    /\ count(d) = 1
                    /\ \A e \in one : <<e.src, e.dst>> = pair => e = d
            /\ \A d \in one : <<d.src, d.dst>> \in pairs
            /\ \A i \in 1..Len(dot_arrows) :
                dot_arrows[i].bidirectional =>
                    Range(Tokens(dot_arrows[i].label)) =
                        SlugKeys({a \in GuessedOf(arrows) :
                                    {a.src_name, a.dst_name} =
                                    {dot_arrows[i].src, dot_arrows[i].dst}})

\* C5: combine_arrows returns exactly one DotArrow that is not bidirectional
\* for every directed pair with an explicit arrow, in that direction and
\* labelled with the keys of the explicit arrows of the pair alone; explicit
\* arrows add nothing to a bidirectional DotArrow.
\* (Whatever the collection, the call returns, and returns that.)
C5_OneDirectedPerExplicitPair ==
    Ended => Returned /\ DirectedAsClaimed

\* C6: the label of every DotArrow combine_arrows returns, split on "<br/>",
\* is a list of key tokens in ascending order with no token twice.
C6_LabelSortedWithoutDuplicates ==
    Returned =>
        \A i \in 1..Len(dot_arrows) : Ascending(Tokens(dot_arrows[i].label))

\* C7: when an entity of the list, or a child reached through an attribute of
\* attrs_with_child_refs, has a type with no entry in id_attrs, diagram ends
\* with the KeyError of the lookup and returns no line: the step that looks
\* the type up raises, so the call never gets as far as combining arrows.
C7_MissingIdentityFails ==
    (MissingEntity \/ MissingChild) =>
        /\ lines = <<>>
        /\ pc \in {"start", "indexed", "guessed", "failed"}
        /\ (MissingEntity => pc \in {"start", "failed"})
        /\ (pc = "failed" => err = "KeyError")
        /\ (pc = "start" /\ MissingEntity =>
                IndexEntities(config, entities, EmptyIndex).err = "KeyError")
        /\ (pc = "guessed" =>
                make_arrows_from_python_refs(config, entities).err = "KeyError")

\* C7's case: every entity has an identity attribute, a child has none, and
\* the call has failed.
C7_Witness ==
    /\ pc = "failed"
    /\ err = "KeyError"
    /\ MissingChild
    /\ ~MissingEntity
    /\ entities # <<>>

C9_GuessedArrowsExact ==
    LET attrs(e) == get_attrs(config.synonymous_attrs, e)
        name(e) == slugify(entity_name(config.id_attrs, e))
        ents == Range(entities)
        expected ==
            UNION {UNION {{<<name(e), name(o), attrs(e)[i][1], attrs(e)[i][2]>> :
                            i \in {j \in 1..Len(attrs(e)) :
                                     \E m \in 1..Len(attrs(o)) :
                                        attrs(o)[m][2] = attrs(e)[j][2]}} :
                          o \in ents \ {e}} : e \in ents}
        got == {<<arrows[i].src_name, arrows[i].dst_name, arrows[i].key,
                  arrows[i].value>> : i \in 1..Len(arrows)}
    IN  pc = "guessed" =>
            /\ got = expected
            /\ \A i \in 1..Len(arrows) : arrows[i].guessed

\* C10: of two or more keys of the type's synonymous_attrs list among the
\* extracted attributes of an entity, filter_out_synonymous_attributes keeps
\* the first-listed one alone; every other attribute is kept, in its order.
C10_RepresentativeKept ==
    pc = "indexed" =>
        \A i \in 1..Len(entities) :
            LET e == entities[i]
                synonyms == GetOrEmpty(config.synonymous_attrs, e.type)
                raw == ExtractedAttrs(e)
                present == {j \in 1..Len(synonyms) : DictHas(raw, synonyms[j])}
                first == synonyms[CHOOSE j \in present : \A m \in present : j <= m]
                kept == get_attrs(config.synonymous_attrs, e)
                stored == DictGet(index.attrs_by_entity_name,
                                  entity_name(config.id_attrs, e))
                other(kv) == kv[1] \notin Range(synonyms)
                last == \A j \in (i + 1)..Len(entities) :
                            entity_name(config.id_attrs, entities[j]) #
                            entity_name(config.id_attrs, e)
            IN  (last /\ Cardinality(present) >= 2) =>
                    /\ stored = kept
                    /\ {kv[1] : kv \in Range(stored)} \cap Range(synonyms) = {first}
                    /\ SelectSeq(stored, other) = SelectSeq(raw, other)

=============================================================================
